---------------------------- MODULE Spec2Model ----------------------------
(***************************************************************************)
(* A model of the GT911 touch-controller driver (src/gt911.py).            *)
(*                                                                         *)
(* The driver is single threaded.  Every statement that touches the        *)
(* outside world (a GPIO call, a sleep, an I2C transaction) is one step;   *)
(* pc is the driver's position.  The device's answers (status bytes,       *)
(* point records, product-id bytes, the level of the interrupt line) are   *)
(* chosen by the environment at each read.                                 *)
(*                                                                         *)
(* Time is counted in ticks of 100 microseconds.                           *)
(* bus is the log of the most recent I2C transactions (the last BusWindow   *)
(* of them); gpio is the log of the GPIO calls of the handle's lifetime.   *)
(***************************************************************************)
EXTENDS Integers, Sequences, FiniteSets, TLC

VARIABLES
    cfg,          \* constructor arguments: rst_pin, int_pin (present?), int_high, debug
    pc,           \* position of the driver
    ret_to,       \* who called _read_last_touch: "init", "touched1", "touched2"
    rst,          \* state of the reset line's DigitalInOut
    intp,         \* state of the interrupt line's DigitalInOut
    gpio,         \* log of GPIO calls
    held_low,     \* ticks slept while reset was driven low
    settle,       \* ticks slept with reset driven high before the first I2C transaction
    bus_used,     \* an I2C transaction has been issued
    i2c_addr,     \* self._i2c_addr (0: not yet assigned)
    last_touch,   \* self._last_touch (<<>>: not yet assigned)
    curr_touch,   \* local curr_touch of touched
    test,         \* local test of _read_last_touch
    timeout,      \* local timeout of _read_last_touch
    bus,          \* log of the last BusWindow I2C transactions
    info_i,       \* index of the next register _device_info reads
    chip_id,      \* local chip_id of _device_info, as the bytes read
    probe,        \* what the last _device_info call read as product id
    touched_ret,  \* value returned by the last read of touched ("OSError": it raised)
    touches_ret,  \* value returned by the last read of touches
    entry_touch,  \* self._last_touch when the last call of touched began
    first_read,   \* the record the first poll of the last call of touched read
    status_reads, \* status-register reads issued by the running _read_last_touch
    prev_true_read \* the record the call of touched before the last one read, if
                  \* it returned True (<<>> otherwise)

vars == <<cfg, pc, ret_to, rst, intp, gpio, held_low, settle, bus_used, i2c_addr,
          last_touch, curr_touch, test, timeout, bus, info_i, chip_id, probe,
          touched_ret, touches_ret, entry_touch, first_read, status_reads,
          prev_true_read>>

---------------------------------------------------------------------------
(* Register map and constants of the driver *)

GT_DEFAULT_I2C_ADDR == 93
GT_SECONDARY_I2C_ADDR == 20
GT_COMMAND == 32832
GT_REG_STATUS == 33102
GT_POINT1_COORD == 33103
GT_POINT2_COORD == 33111
GT_POINT3_COORD == 33119
GT_POINT4_COORD == 33127
GT_POINT5_COORD == 33135
GT_REG_PRODID_1 == 33088
GT_REG_PRODID_2 == 33089
GT_REG_PRODID_3 == 33090
GT_REG_PRODID_4 == 33091
GT_REG_FIRMVERSH == 33093
GT_REG_FIRMVERSL == 33092
GT_REG_VENDID == 33098
GT_PANEL_BITFREQH == 32872
GT_PANEL_BITFREQL == 32871
GT_SCREEN_TOUCH_LVL == 32851
GT_TOUCH_NO == 32844
GT_X_THRESHOLD == 32855
GT_Y_THRESHOLD == 32856

\* timeout = 250 in _read_last_touch
POLL_TIMEOUT == 250
\* the point record _read_last_touch reads is 7 bytes long
POINT_READ_LEN == 7

\* time.sleep arguments, in ticks of 100 microseconds
SLEEP_RST_LOW == 50
SLEEP_STOP == 100
SLEEP_STRAP == 1
SLEEP_START == 50
SLEEP_POLL == 10

---------------------------------------------------------------------------
(* What the environment may answer *)

\* status bytes: idle, not ready with a count, ready with 0, 1, 2 points
StatusValues == {0, 2, 128, 129, 130}

\* 7-byte point records (track id, x lo, x hi, y lo, y hi, size lo, size hi)
Records == { <<0, 0, 0, 0, 0, 0, 0>>,
             <<1, 52, 18, 120, 86, 32, 0>>,
             <<2, 255, 255, 0, 128, 255, 127>> }

\* bytes a product-id register may hold
IdBytes == {57, 49, 0}

\* the product id of a GT911: "911" and a terminating 0
ExpectedChipId == <<57, 49, 49, 0>>

Configs == [rst_pin : BOOLEAN, int_pin : BOOLEAN, int_high : BOOLEAN, debug : BOOLEAN]

---------------------------------------------------------------------------
(* Register access: _read and _write *)

\* the register address framed low byte first
RegAddrBytesLittleEndian(register) == << register % 256, (register \div 256) % 256 >>

\* the two bytes that frame a register address (lines 212 and 227)
RegAddrBytes(register) == << (register \div 256) % 256, register % 256 >>

\* (v & 0xFF) for v in values
MaskValues(values) == [i \in 1..Len(values) |-> values[i] % 256]

\* an I2CDevice made with the default address whatever was selected
DeviceAddrAlwaysDefault == GT_DEFAULT_I2C_ADDR

\* the address the I2CDevice of the handle transacts with (line 115)
DeviceAddr == i2c_addr

\* i2c.write_then_readinto(payload, result) of _read(register, length)
\* (fn, register, length, values record the call that issued the transaction)
ReadTxn(register, length) ==
    [addr |-> DeviceAddr, op |-> "write_then_readinto",
     out |-> RegAddrBytes(register), n |-> length,
     fn |-> "_read", register |-> register, length |-> length, values |-> <<>>]

\* i2c.write(bytes(values)) of _write(register, values)
WriteTxn(register, values) ==
    [addr |-> DeviceAddr, op |-> "write",
     out |-> RegAddrBytes(register) \o MaskValues(values), n |-> 0,
     fn |-> "_write", register |-> register, length |-> 0, values |-> values]

\* how many I2C transactions the log keeps
BusWindow == 4

\* the log with one more transaction
Logged(log, txn) ==
    LET all == Append(log, txn)
    IN  IF Len(all) > BusWindow
        THEN SubSeq(all, Len(all) - BusWindow + 1, Len(all))
        ELSE all

\* test & 0x80
Ready(status) == (status \div 128) % 2 = 1

---------------------------------------------------------------------------
(* GPIO *)

PinInput(p) == [p EXCEPT !.dir = "input"]
PinOutput(p, value, mode) == [dir |-> "output", value |-> value, mode |-> mode]
PinSet(p, value) == [p EXCEPT !.value = value]

GpioEvent(pin, call, value, mode) ==
    [pin |-> pin, call |-> call, value |-> value, mode |-> mode]

RstLow == rst.dir = "output" /\ rst.value = FALSE
RstHigh == rst.dir = "output" /\ rst.value = TRUE

\* time.sleep(d): the ticks count towards the low pulse while reset is driven
\* low, and towards the settle time while reset is driven high and the bus has
\* not been used
Sleep(d) ==
    /\ held_low' = IF RstLow THEN held_low + d ELSE held_low
    /\ settle' = IF RstHigh /\ ~bus_used THEN settle + d ELSE settle

NoSleep == UNCHANGED <<held_low, settle>>

---------------------------------------------------------------------------
Init ==
    /\ cfg \in Configs
    /\ pc = "init"
    /\ ret_to = "init"
    /\ rst = [dir |-> "input", value |-> FALSE, mode |-> "push_pull"]
    /\ intp = [dir |-> "input", value |-> FALSE, mode |-> "push_pull"]
    /\ gpio = <<>>
    /\ held_low = 0
    /\ settle = 0
    /\ bus_used = FALSE
    /\ i2c_addr = 0
    /\ last_touch = <<>>
    /\ curr_touch = <<>>
    /\ test = 0
    /\ timeout = 0
    /\ bus = <<>>
    /\ info_i = 1
    /\ chip_id = <<>>
    /\ probe = "unread"
    /\ touched_ret = "none"
    /\ touches_ret = [called |-> FALSE, points |-> <<>>]
    /\ entry_touch = <<>>
    /\ first_read = <<>>
    /\ status_reads = 0
    /\ prev_true_read = <<>>


---------------------------------------------------------------------------
(* Construction: __init__ and _reset_device *)

pins == <<rst, intp, gpio>>
clock == <<held_low, settle>>
locals == <<curr_touch, test, timeout>>
info == <<info_i, chip_id, probe>>
rets == <<touched_ret, touches_ret>>
handle == <<cfg, i2c_addr, last_touch>>

\* if self.rst_pin (line 104)
NeedsReset(c) == c.rst_pin

\* elif self.int_pin (line 106)
ListensOnly(c) == ~c.rst_pin /\ c.int_pin

\* the interrupt line strapped although there is no reset line
ConstructStrapsWithoutReset ==
    /\ pc = "init"
    /\ IF NeedsReset(cfg)
       THEN /\ pc' = "reset"
            /\ UNCHANGED pins
       ELSE IF ListensOnly(cfg)
       THEN /\ intp' = PinOutput(intp, cfg.int_high, "open_drain")
            /\ gpio' = Append(gpio, GpioEvent("int", "switch_to_output", cfg.int_high, "open_drain"))
            /\ rst' = rst
            /\ pc' = "addr"
       ELSE /\ pc' = "addr"
            /\ UNCHANGED pins
    /\ NoSleep
    /\ UNCHANGED <<handle, ret_to, bus_used, locals, bus, info, rets>>
    /\ UNCHANGED <<entry_touch, prev_true_read, first_read, status_reads>>

\* __init__, lines 96-108: the branch on the pins
Construct ==
    /\ pc = "init"
    /\ IF NeedsReset(cfg)
       THEN /\ pc' = "reset"
            /\ UNCHANGED pins
       ELSE IF ListensOnly(cfg)
       THEN /\ intp' = PinInput(intp)
            /\ gpio' = Append(gpio, GpioEvent("int", "switch_to_input", FALSE, intp.mode))
            /\ rst' = rst
            /\ pc' = "addr"
       ELSE /\ pc' = "addr"
            /\ UNCHANGED pins
    /\ NoSleep
    /\ UNCHANGED <<handle, ret_to, bus_used, locals, bus, info, rets>>
    /\ UNCHANGED <<entry_touch, prev_true_read, first_read, status_reads>>

\* _reset_device, lines 187-190: the guard, then rst_pin.switch_to_output(True)
ResetBegin ==
    /\ pc = "reset"
    /\ IF ~cfg.rst_pin
       THEN /\ pc' = "RuntimeError"
            /\ UNCHANGED pins
       ELSE /\ rst' = PinOutput(rst, TRUE, "push_pull")
            /\ gpio' = Append(gpio, GpioEvent("rst", "switch_to_output", TRUE, "push_pull"))
            /\ intp' = intp
            /\ pc' = IF cfg.int_pin THEN "rst_out_low" ELSE "rst_stop"
    /\ NoSleep
    /\ UNCHANGED <<handle, ret_to, bus_used, locals, bus, info, rets>>
    /\ UNCHANGED <<entry_touch, prev_true_read, first_read, status_reads>>

\* line 192: rst_pin.switch_to_output(False)
ResetOutLow ==
    /\ pc = "rst_out_low"
    /\ rst' = PinOutput(rst, FALSE, "push_pull")
    /\ gpio' = Append(gpio, GpioEvent("rst", "switch_to_output", FALSE, "push_pull"))
    /\ intp' = intp
    /\ pc' = "rst_low_sleep"
    /\ NoSleep
    /\ UNCHANGED <<handle, ret_to, bus_used, locals, bus, info, rets>>
    /\ UNCHANGED <<entry_touch, prev_true_read, first_read, status_reads>>

\* line 193: time.sleep(0.005)
ResetLowSleep ==
    /\ pc = "rst_low_sleep"
    /\ Sleep(SLEEP_RST_LOW)
    /\ pc' = "rst_stop"
    /\ UNCHANGED <<handle, pins, ret_to, bus_used, locals, bus, info, rets>>
    /\ UNCHANGED <<entry_touch, prev_true_read, first_read, status_reads>>

\* line 195: rst_pin.value = False
ResetStop ==
    /\ pc = "rst_stop"
    /\ rst' = PinSet(rst, FALSE)
    /\ gpio' = Append(gpio, GpioEvent("rst", "value", FALSE, rst.mode))
    /\ intp' = intp
    /\ pc' = "rst_stop_sleep"
    /\ NoSleep
    /\ UNCHANGED <<handle, ret_to, bus_used, locals, bus, info, rets>>
    /\ UNCHANGED <<entry_touch, prev_true_read, first_read, status_reads>>

\* line 196: time.sleep(0.01)
ResetStopSleep ==
    /\ pc = "rst_stop_sleep"
    /\ Sleep(SLEEP_STOP)
    /\ pc' = IF cfg.int_pin THEN "int_strap" ELSE "rst_start"
    /\ UNCHANGED <<handle, pins, ret_to, bus_used, locals, bus, info, rets>>
    /\ UNCHANGED <<entry_touch, prev_true_read, first_read, status_reads>>

\* the interrupt line strapped to the opposite level
StrapLevelInverted(c) == ~c.int_high

\* the level the interrupt line is strapped to (line 202)
StrapLevel(c) == c.int_high

\* lines 201-203: int_pin.switch_to_output(int_high, drive_mode=OPEN_DRAIN)
IntStrap ==
    /\ pc = "int_strap"
    /\ intp' = PinOutput(intp, StrapLevel(cfg), "open_drain")
    /\ gpio' = Append(gpio, GpioEvent("int", "switch_to_output", StrapLevel(cfg), "open_drain"))
    /\ rst' = rst
    /\ pc' = "int_strap_sleep"
    /\ NoSleep
    /\ UNCHANGED <<handle, ret_to, bus_used, locals, bus, info, rets>>
    /\ UNCHANGED <<entry_touch, prev_true_read, first_read, status_reads>>

\* line 204: time.sleep(0.0001)
IntStrapSleep ==
    /\ pc = "int_strap_sleep"
    /\ Sleep(SLEEP_STRAP)
    /\ pc' = "rst_start"
    /\ UNCHANGED <<handle, pins, ret_to, bus_used, locals, bus, info, rets>>
    /\ UNCHANGED <<entry_touch, prev_true_read, first_read, status_reads>>

\* line 206: rst_pin.value = True
ResetStart ==
    /\ pc = "rst_start"
    /\ rst' = PinSet(rst, TRUE)
    /\ gpio' = Append(gpio, GpioEvent("rst", "value", TRUE, rst.mode))
    /\ intp' = intp
    /\ pc' = IF cfg.int_pin THEN "rst_start_sleep" ELSE "addr"
    /\ NoSleep
    /\ UNCHANGED <<handle, ret_to, bus_used, locals, bus, info, rets>>
    /\ UNCHANGED <<entry_touch, prev_true_read, first_read, status_reads>>

\* line 208: time.sleep(0.005)
ResetStartSleep ==
    /\ pc = "rst_start_sleep"
    /\ Sleep(SLEEP_START)
    /\ pc' = "int_listen"
    /\ UNCHANGED <<handle, pins, ret_to, bus_used, locals, bus, info, rets>>
    /\ UNCHANGED <<entry_touch, prev_true_read, first_read, status_reads>>

\* line 209: int_pin.switch_to_input()
IntListen ==
    /\ pc = "int_listen"
    /\ intp' = PinInput(intp)
    /\ gpio' = Append(gpio, GpioEvent("int", "switch_to_input", FALSE, intp.mode))
    /\ rst' = rst
    /\ pc' = "addr"
    /\ NoSleep
    /\ UNCHANGED <<handle, ret_to, bus_used, locals, bus, info, rets>>
    /\ UNCHANGED <<entry_touch, prev_true_read, first_read, status_reads>>

\* lines 110-113: the address the handle will use
I2cAddrFor(c) ==
    IF c.rst_pin /\ c.int_pin /\ c.int_high
    THEN GT_DEFAULT_I2C_ADDR
    ELSE GT_SECONDARY_I2C_ADDR

\* the device info read on every construction
PrintsDeviceInfoAlways(c) == TRUE

\* if self._debug (line 117)
PrintsDeviceInfo(c) == c.debug

\* lines 110-117: assign the address, make the I2CDevice, branch on debug
\* (what the I2CDevice constructor itself puts on the bus is library code, not
\* the driver's, and is not logged)
SelectAddr ==
    /\ pc = "addr"
    /\ i2c_addr' = I2cAddrFor(cfg)
    /\ IF PrintsDeviceInfo(cfg)
       THEN /\ pc' = "info"
            /\ info_i' = 1
            /\ chip_id' = <<>>
            /\ UNCHANGED ret_to
       ELSE /\ pc' = "poll_clear"
            /\ ret_to' = "init"
            /\ UNCHANGED <<info_i, chip_id>>
    /\ NoSleep
    /\ UNCHANGED <<cfg, last_touch, pins, bus_used, locals, bus, probe, rets>>
    /\ UNCHANGED <<entry_touch, prev_true_read, first_read, status_reads>>

---------------------------------------------------------------------------
(* _device_info *)

\* the registers _device_info reads, in the order it reads them (lines 238-251)
InfoRegs == << GT_REG_PRODID_1, GT_REG_PRODID_2, GT_REG_PRODID_3, GT_REG_PRODID_4,
               GT_REG_FIRMVERSH, GT_REG_FIRMVERSL, GT_REG_VENDID, GT_TOUCH_NO,
               GT_X_THRESHOLD, GT_Y_THRESHOLD, GT_SCREEN_TOUCH_LVL,
               GT_PANEL_BITFREQH, GT_PANEL_BITFREQL >>

ProdIdRegs == {GT_REG_PRODID_1, GT_REG_PRODID_2, GT_REG_PRODID_3, GT_REG_PRODID_4}

\* the positions at which the driver is about to issue an I2C transaction
TxnPcs == {"info", "poll_clear", "poll_status", "poll_loop_clear", "poll_loop_status",
           "poll_final_clear", "poll_points", "init_command"}

\* the positions at which the driver is inside _read
ReadPcs == {"info", "poll_status", "poll_loop_status", "poll_points"}

\* _read, lines 215-217: while self.int_pin.value: pass (the line reads high)
IntWait ==
    /\ pc \in ReadPcs
    /\ cfg.int_pin
    /\ UNCHANGED vars

\* _device_info, lines 238-251: one _read(register, 1) per step; the dictionary
\* it returns is printed and dropped (lines 119-120), then line 122 calls
\* _read_last_touch
DeviceInfoRead ==
    /\ pc = "info"
    /\ \E b \in IdBytes :
         LET id == IF InfoRegs[info_i] \in ProdIdRegs THEN Append(chip_id, b) ELSE chip_id
         IN  /\ bus' = Logged(bus, ReadTxn(InfoRegs[info_i], 1))
             /\ bus_used' = TRUE
             /\ IF info_i < Len(InfoRegs)
                THEN /\ info_i' = info_i + 1
                     /\ chip_id' = id
                     /\ UNCHANGED <<pc, ret_to, probe>>
                ELSE /\ info_i' = 1
                     /\ chip_id' = <<>>
                     /\ probe' = IF id = ExpectedChipId THEN "match" ELSE "mismatch"
                     /\ pc' = "poll_clear"
                     /\ ret_to' = "init"
    /\ NoSleep
    /\ UNCHANGED <<handle, pins, locals, rets>>
    /\ UNCHANGED <<entry_touch, prev_true_read, first_read, status_reads>>

---------------------------------------------------------------------------
(* _read_last_touch *)

\* line 170: self._write(_GT_REG_STATUS, [0])
PollClear ==
    /\ pc = "poll_clear"
    /\ bus' = Logged(bus, WriteTxn(GT_REG_STATUS, <<0>>))
    /\ bus_used' = TRUE
    /\ test' = 0
    /\ timeout' = 0
    /\ pc' = "poll_status"
    /\ NoSleep
    /\ UNCHANGED <<handle, pins, ret_to, curr_touch, info, rets>>
    /\ status_reads' = 0
    /\ UNCHANGED <<entry_touch, prev_true_read, first_read>>

\* lines 171-172: test = self._read(_GT_REG_STATUS, 1)[0]; timeout = 250
PollStatus ==
    /\ pc = "poll_status"
    /\ \E s \in StatusValues : test' = s
    /\ timeout' = POLL_TIMEOUT
    /\ bus' = Logged(bus, ReadTxn(GT_REG_STATUS, 1))
    /\ pc' = "poll_loop"
    /\ NoSleep
    /\ UNCHANGED <<handle, pins, ret_to, bus_used, curr_touch, info, rets>>
    /\ status_reads' = status_reads + 1
    /\ UNCHANGED <<entry_touch, prev_true_read, first_read>>

\* the wait loop without its countdown
PollLoopNoCountdown ==
    /\ pc = "poll_loop"
    /\ IF Ready(test)
       THEN /\ pc' = "poll_final_clear"
            /\ NoSleep
       ELSE IF test # 0
            THEN /\ Sleep(SLEEP_POLL)
                 /\ pc' = "poll_loop_clear"
            ELSE /\ NoSleep
                 /\ pc' = "poll_final_clear"
    /\ UNCHANGED <<handle, pins, ret_to, bus_used, locals, bus, info, rets>>
    /\ UNCHANGED <<entry_touch, prev_true_read, first_read, status_reads>>

\* lines 173-176: the loop condition (timeout is decremented only when the ready
\* bit is clear), the break on test == 0, and time.sleep(0.001)
PollLoop ==
    /\ pc = "poll_loop"
    /\ IF Ready(test)
       THEN /\ pc' = "poll_final_clear"
            /\ NoSleep
            /\ UNCHANGED timeout
       ELSE /\ timeout' = timeout - 1
            /\ IF timeout - 1 > 0 /\ test # 0
               THEN /\ Sleep(SLEEP_POLL)
                    /\ pc' = "poll_loop_clear"
               ELSE /\ NoSleep
                    /\ pc' = "poll_final_clear"
    /\ UNCHANGED <<handle, pins, ret_to, bus_used, curr_touch, test, bus, info, rets>>
    /\ UNCHANGED <<entry_touch, prev_true_read, first_read, status_reads>>

\* line 177: self._write(_GT_REG_STATUS, [0])
PollLoopClear ==
    /\ pc = "poll_loop_clear"
    /\ bus' = Logged(bus, WriteTxn(GT_REG_STATUS, <<0>>))
    /\ pc' = "poll_loop_status"
    /\ NoSleep
    /\ UNCHANGED <<handle, pins, ret_to, bus_used, locals, info, rets>>
    /\ UNCHANGED <<entry_touch, prev_true_read, first_read, status_reads>>

\* line 178: test = self._read(_GT_REG_STATUS, 1)[0]
PollLoopStatus ==
    /\ pc = "poll_loop_status"
    /\ \E s \in StatusValues : test' = s
    /\ bus' = Logged(bus, ReadTxn(GT_REG_STATUS, 1))
    /\ pc' = "poll_loop"
    /\ NoSleep
    /\ UNCHANGED <<handle, pins, ret_to, bus_used, curr_touch, timeout, info, rets>>
    /\ status_reads' = status_reads + 1
    /\ UNCHANGED <<entry_touch, prev_true_read, first_read>>

\* line 179: self._write(_GT_REG_STATUS, [0])
PollFinalClear ==
    /\ pc = "poll_final_clear"
    /\ bus' = Logged(bus, WriteTxn(GT_REG_STATUS, <<0>>))
    /\ pc' = "poll_points"
    /\ NoSleep
    /\ UNCHANGED <<handle, pins, ret_to, bus_used, locals, info, rets>>
    /\ UNCHANGED <<entry_touch, prev_true_read, first_read, status_reads>>

\* line 181: return list(self._read(_GT_POINT1_COORD, 7)); curr_touch holds the
\* returned list until the caller has used it
PollPoints ==
    /\ pc = "poll_points"
    /\ \E rec \in Records : curr_touch' = rec
    /\ bus' = Logged(bus, ReadTxn(GT_POINT1_COORD, POINT_READ_LEN))
    /\ timeout' = 0
    /\ pc' = "poll_return"
    /\ NoSleep
    /\ UNCHANGED <<handle, pins, ret_to, bus_used, test, info, rets>>
    /\ status_reads' = 0
    /\ UNCHANGED <<entry_touch, prev_true_read, first_read>>

---------------------------------------------------------------------------
(* The callers of _read_last_touch *)

\* line 122: self._last_touch = self._read_last_touch()
InitStore ==
    /\ pc = "poll_return"
    /\ ret_to = "init"
    /\ last_touch' = curr_touch
    /\ curr_touch' = <<>>
    /\ pc' = "init_command"
    /\ NoSleep
    /\ UNCHANGED <<cfg, i2c_addr, pins, ret_to, bus_used, test, timeout, bus, info, rets>>
    /\ UNCHANGED <<entry_touch, prev_true_read, first_read, status_reads>>

\* line 123: self._write(_GT_COMMAND, [0]); construction returns the handle
InitCommand ==
    /\ pc = "init_command"
    /\ bus' = Logged(bus, WriteTxn(GT_COMMAND, <<0>>))
    /\ pc' = "idle"
    /\ NoSleep
    /\ UNCHANGED <<handle, pins, ret_to, bus_used, locals, info, rets>>
    /\ UNCHANGED <<entry_touch, prev_true_read, first_read, status_reads>>

\* touched, line 132: curr_touch = self._read_last_touch()
Touched ==
    /\ pc = "idle"
    /\ pc' = "poll_clear"
    /\ ret_to' = "touched1"
    /\ touched_ret' = "none"
    /\ touches_ret' = [called |-> FALSE, points |-> <<>>]
    /\ NoSleep
    /\ UNCHANGED <<handle, pins, bus_used, locals, bus, info>>
    /\ entry_touch' = last_touch
    /\ prev_true_read' = IF touched_ret = "True" THEN first_read ELSE <<>>
    /\ first_read' = <<>>
    /\ UNCHANGED status_reads

\* touched reporting a new record without storing it
TouchedCompareNoStore ==
    /\ pc = "poll_return"
    /\ ret_to = "touched1"
    /\ IF last_touch # curr_touch
       THEN /\ pc' = "poll_clear"
            /\ ret_to' = "touched2"
            /\ UNCHANGED touched_ret
       ELSE /\ touched_ret' = "False"
            /\ pc' = "idle"
            /\ UNCHANGED ret_to
    /\ curr_touch' = <<>>
    /\ first_read' = curr_touch
    /\ NoSleep
    /\ UNCHANGED <<handle, pins, bus_used, test, timeout, bus, info, touches_ret,
                   entry_touch, prev_true_read, status_reads>>

\* touched, lines 133-142: compare with the stored record; when they differ,
\* store the new one and call _read_last_touch once more
TouchedCompare ==
    /\ pc = "poll_return"
    /\ ret_to = "touched1"
    /\ IF last_touch # curr_touch
       THEN /\ last_touch' = curr_touch
            /\ pc' = "poll_clear"
            /\ ret_to' = "touched2"
            /\ UNCHANGED touched_ret
       ELSE /\ touched_ret' = "False"
            /\ pc' = "idle"
            /\ UNCHANGED <<last_touch, ret_to>>
    /\ curr_touch' = <<>>
    /\ NoSleep
    /\ UNCHANGED <<cfg, i2c_addr, pins, bus_used, test, timeout, bus, info, touches_ret>>
    /\ first_read' = curr_touch
    /\ UNCHANGED <<entry_touch, prev_true_read, status_reads>>

\* touched, lines 140-141: the second poll's record is dropped; return True
TouchedSecond ==
    /\ pc = "poll_return"
    /\ ret_to = "touched2"
    /\ touched_ret' = "True"
    /\ curr_touch' = <<>>
    /\ pc' = "idle"
    /\ NoSleep
    /\ UNCHANGED <<handle, pins, ret_to, bus_used, test, timeout, bus, info, touches_ret>>
    /\ UNCHANGED <<entry_touch, prev_true_read, first_read, status_reads>>

\* touch_count = 1 (line 153)
TOUCH_COUNT == 1

\* touches, lines 157-167: the points decoded from the stored record
TouchPoints(data) ==
    [i \in 1..TOUCH_COUNT |->
        [id |-> data[1],
         x |-> data[3] * 256 + data[2],
         y |-> data[5] * 256 + data[4]]]

\* touches reading the point record from the device again
TouchesReadsDevice ==
    /\ pc = "idle"
    /\ touches_ret' = [called |-> TRUE, points |-> TouchPoints(last_touch)]
    /\ bus' = Logged(bus, ReadTxn(GT_POINT1_COORD, POINT_READ_LEN))
    /\ NoSleep
    /\ UNCHANGED <<handle, pc, pins, ret_to, bus_used, locals, info, touched_ret>>
    /\ UNCHANGED <<entry_touch, prev_true_read, first_read, status_reads>>

\* touches, lines 151-167
Touches ==
    /\ pc = "idle"
    /\ touches_ret' = [called |-> TRUE, points |-> TouchPoints(last_touch)]
    /\ NoSleep
    /\ UNCHANGED <<handle, pc, pins, ret_to, bus_used, locals, bus, info, touched_ret>>
    /\ UNCHANGED <<entry_touch, prev_true_read, first_read, status_reads>>

\* the transaction the driver is about to issue
AttemptedTxn ==
    CASE pc = "info" -> ReadTxn(InfoRegs[info_i], 1)
      [] pc \in {"poll_status", "poll_loop_status"} -> ReadTxn(GT_REG_STATUS, 1)
      [] pc = "poll_points" -> ReadTxn(GT_POINT1_COORD, POINT_READ_LEN)
      [] pc = "init_command" -> WriteTxn(GT_COMMAND, <<0>>)
      [] OTHER -> WriteTxn(GT_REG_STATUS, <<0>>)

\* the handle exists: __init__ has returned
InCall == last_touch # <<>> /\ pc # "init_command"

\* i2c.write / i2c.write_then_readinto raises (lines 220 and 232): no statement
\* of the driver catches it, so the running call of touched, or __init__, ends
\* with the error; what was assigned before stays assigned
BusError ==
    /\ pc \in TxnPcs
    /\ bus' = Logged(bus, AttemptedTxn)
    /\ bus_used' = TRUE
    /\ IF InCall
       THEN /\ pc' = "idle"
            /\ touched_ret' = "OSError"
       ELSE /\ pc' = "OSError"
            /\ UNCHANGED touched_ret
    /\ curr_touch' = <<>>
    /\ timeout' = 0
    /\ status_reads' = 0
    /\ info_i' = 1
    /\ chip_id' = <<>>
    /\ NoSleep
    /\ UNCHANGED <<handle, pins, ret_to, test, probe, touches_ret, entry_touch, prev_true_read, first_read>>

---------------------------------------------------------------------------
Next ==
    \/ Construct
    \/ ResetBegin
    \/ ResetOutLow
    \/ ResetLowSleep
    \/ ResetStop
    \/ ResetStopSleep
    \/ IntStrap
    \/ IntStrapSleep
    \/ ResetStart
    \/ ResetStartSleep
    \/ IntListen
    \/ SelectAddr
    \/ IntWait
    \/ DeviceInfoRead
    \/ PollClear
    \/ PollStatus
    \/ PollLoop
    \/ PollLoopClear
    \/ PollLoopStatus
    \/ PollFinalClear
    \/ PollPoints
    \/ InitStore
    \/ InitCommand
    \/ Touched
    \/ TouchedCompare
    \/ TouchedSecond
    \/ Touches
    \/ BusError

Spec == Init /\ [][Next]_vars

---------------------------------------------------------------------------
(* One call of touched on a handle constructed without a reset line, with     *)
(* the interrupt line reading low again after every wait of _read.            *)

\* a handle constructed without a reset line and without debug, holding any
\* record: the interrupt pin, if there is one, was made an input (line 107),
\* and the bus has seen the end of the poll of line 122 and the write of
\* line 123
InitPoll ==
    /\ cfg \in {c \in Configs : ~c.rst_pin /\ ~c.int_high /\ ~c.debug}
    /\ pc = "idle"
    /\ ret_to = "init"
    /\ rst = [dir |-> "input", value |-> FALSE, mode |-> "push_pull"]
    /\ intp = [dir |-> "input", value |-> FALSE, mode |-> "push_pull"]
    /\ gpio = IF cfg.int_pin
              THEN <<GpioEvent("int", "switch_to_input", FALSE, "push_pull")>>
              ELSE <<>>
    /\ held_low = 0
    /\ settle = 0
    /\ bus_used = TRUE
    /\ i2c_addr = I2cAddrFor(cfg)
    /\ last_touch \in Records
    /\ curr_touch = <<>>
    /\ test \in StatusValues
    /\ timeout = 0
    /\ bus = Logged(Logged(Logged(Logged(Logged(<<>>,
                 WriteTxn(GT_REG_STATUS, <<0>>)),
                 ReadTxn(GT_REG_STATUS, 1)),
                 WriteTxn(GT_REG_STATUS, <<0>>)),
                 ReadTxn(GT_POINT1_COORD, POINT_READ_LEN)),
                 WriteTxn(GT_COMMAND, <<0>>))
    /\ info_i = 1
    /\ chip_id = <<>>
    /\ probe = "unread"
    /\ touched_ret = "none"
    /\ touches_ret = [called |-> FALSE, points |-> <<>>]
    /\ entry_touch = <<>>
    /\ first_read = <<>>
    /\ status_reads = 0
    /\ prev_true_read = <<>>

\* the steps of _read_last_touch: straight-line code, and reads that go on
\* once the interrupt line reads low
PollProgress ==
    \/ PollClear
    \/ PollStatus
    \/ PollLoop
    \/ PollLoopClear
    \/ PollLoopStatus
    \/ PollFinalClear
    \/ PollPoints

NextPoll ==
    \/ Touched
    \/ IntWait
    \/ PollClear
    \/ PollStatus
    \/ PollLoop
    \/ PollLoopClear
    \/ PollLoopStatus
    \/ PollFinalClear
    \/ PollPoints
    \/ TouchedCompare
    \/ TouchedSecond
    \/ BusError

SpecPoll == InitPoll /\ [][NextPoll]_vars /\ WF_vars(PollProgress)

---------------------------------------------------------------------------
(* Register access on its own: _read and _write applied to arbitrary          *)
(* registers, lengths and payloads on a constructed handle.                   *)

\* how many raw register accesses a run makes
MaxRawOps == 2

RawRegs == {GT_COMMAND, GT_REG_STATUS, 258, 65280}
RawLengths == {1, POINT_READ_LEN}
RawValues == { <<0>>, <<256>>, <<-1, 511>>, <<128, 255, 300>> }

\* a handle constructed without pins, holding any record
InitRaw ==
    /\ cfg \in {c \in Configs : ~c.rst_pin /\ ~c.int_pin}
    /\ pc = "raw"
    /\ ret_to = "init"
    /\ rst = [dir |-> "input", value |-> FALSE, mode |-> "push_pull"]
    /\ intp = [dir |-> "input", value |-> FALSE, mode |-> "push_pull"]
    /\ gpio = <<>>
    /\ held_low = 0
    /\ settle = 0
    /\ bus_used = TRUE
    /\ i2c_addr = I2cAddrFor(cfg)
    /\ last_touch \in Records
    /\ curr_touch = <<>>
    /\ test = 0
    /\ timeout = 0
    /\ bus = <<>>
    /\ info_i = 1
    /\ chip_id = <<>>
    /\ probe = "unread"
    /\ touched_ret = "none"
    /\ touches_ret = [called |-> FALSE, points |-> <<>>]
    /\ entry_touch = <<>>
    /\ first_read = <<>>
    /\ status_reads = 0
    /\ prev_true_read = <<>>

\* _read(register, length), lines 211-224
RawRead ==
    /\ pc = "raw"
    /\ Len(bus) < MaxRawOps
    /\ \E register \in RawRegs, length \in RawLengths :
         bus' = Logged(bus, ReadTxn(register, length))
    /\ NoSleep
    /\ UNCHANGED <<handle, pc, pins, ret_to, bus_used, locals, info, rets>>
    /\ UNCHANGED <<entry_touch, prev_true_read, first_read, status_reads>>

\* _write(register, values), lines 226-235
RawWrite ==
    /\ pc = "raw"
    /\ Len(bus) < MaxRawOps
    /\ \E register \in RawRegs, values \in RawValues :
         bus' = Logged(bus, WriteTxn(register, values))
    /\ NoSleep
    /\ UNCHANGED <<handle, pc, pins, ret_to, bus_used, locals, info, rets>>
    /\ UNCHANGED <<entry_touch, prev_true_read, first_read, status_reads>>

NextRaw == RawRead \/ RawWrite

SpecRaw == InitRaw /\ [][NextRaw]_vars

---------------------------------------------------------------------------
(* Claims *)

PointRegs == << GT_POINT1_COORD, GT_POINT2_COORD, GT_POINT3_COORD,
                GT_POINT4_COORD, GT_POINT5_COORD >>

IsPointRead(t) ==
    t.op = "write_then_readinto" /\ \E i \in DOMAIN PointRegs : t.register = PointRegs[i]

IsStatusRead(t) == t.op = "write_then_readinto" /\ t.register = GT_REG_STATUS

IsStatusClear(t) == t.op = "write" /\ t.register = GT_REG_STATUS /\ t.out[3] = 0

\* the handle has been returned by the constructor
Constructed == pc \in {"idle", "poll_clear", "poll_status", "poll_loop", "poll_loop_clear",
                       "poll_loop_status", "poll_final_clear", "poll_points",
                       "poll_return"} /\ last_touch # <<>>

\* the stored record is the one the last poll read (after a touched call that
\* returned True a second poll has run since, and one that raised did not
\* complete its poll)
StoredByLastPoll == pc = "idle" /\ touched_ret \in {"none", "False"}

\* C1: when the last status byte a poll read has the ready bit clear, the
\* touches fetched after that poll are the empty sequence and the poll has
\* read no point register.
C1_NotReadyNoPoints ==
    (StoredByLastPoll /\ touches_ret.called /\ ~Ready(test)) =>
        /\ touches_ret.points = <<>>
        /\ \A i \in DOMAIN bus : ~IsPointRead(bus[i])

\* C2: when the last status byte a poll read has the ready bit set and a count
\* n in 0..5 in its low 4 bits, the touches fetched are exactly n points, the
\* i-th one read at the i-th per-point offset.
C2_CountPoints ==
    (StoredByLastPoll /\ touches_ret.called /\ Ready(test) /\ test % 16 \in 0..5) =>
        /\ Len(touches_ret.points) = test % 16
        /\ \A i \in 1..Len(touches_ret.points) :
              \E j \in DOMAIN bus :
                 /\ bus[j].op = "write_then_readinto"
                 /\ bus[j].register = PointRegs[i]

C4_AddressFixed ==
    /\ [](/\ i2c_addr # 0 => i2c_addr \in {GT_DEFAULT_I2C_ADDR, GT_SECONDARY_I2C_ADDR}
          /\ bus_used => i2c_addr # 0
          /\ \A i \in DOMAIN bus : bus[i].addr = i2c_addr)
    /\ [][i2c_addr # 0 => i2c_addr' = i2c_addr]_vars

\* C4 witness: a handle on the default address after a touched call that found
\* a new record, the log full of its transactions.
C4_Witness ==
    /\ pc = "idle"
    /\ touched_ret = "True"
    /\ i2c_addr = GT_DEFAULT_I2C_ADDR
    /\ Len(bus) = BusWindow

\* C5: without a reset pin no GPIO line is ever an output or has a value
\* written: the only GPIO call is the interrupt pin's switch_to_input.
C5_NoOutputWithoutReset ==
    ~cfg.rst_pin =>
        /\ rst.dir # "output"
        /\ intp.dir # "output"
        /\ \A i \in DOMAIN gpio :
              gpio[i].pin = "int" /\ gpio[i].call = "switch_to_input"
        /\ gpio # <<>> => cfg.int_pin

\* C5 witness: a handle with only an interrupt pin that has configured it and
\* has polled since construction.
C5_Witness ==
    /\ ~cfg.rst_pin
    /\ cfg.int_pin
    /\ gpio # <<>>
    /\ pc = "idle"
    /\ touched_ret = "False"

\* C6: when a poll returns, a clear of the status register has followed every
\* read of a point register.
C6_ClearAfterPoints ==
    pc = "poll_return" =>
        \A i \in DOMAIN bus :
            IsPointRead(bus[i]) =>
                \E j \in DOMAIN bus : j > i /\ IsStatusClear(bus[j])

IsRstLowEvent(e) == e.pin = "rst" /\ e.value = FALSE
IsRstHighEvent(e) == e.pin = "rst" /\ e.value = TRUE
IsStrapEvent(e) == e.pin = "int" /\ e.call = "switch_to_output"
IsListenEvent(e) == e.pin = "int" /\ e.call = "switch_to_input"

\* reset was driven low, and not high since, before the GPIO call at position j
RstLowBefore(j) ==
    \E i \in 1..(j - 1) :
        /\ IsRstLowEvent(gpio[i])
        /\ \A k \in (i + 1)..(j - 1) : ~IsRstHighEvent(gpio[k])

\* the interrupt line was strapped, and not released since, before position j
StrappedBefore(j) ==
    \E i \in 1..(j - 1) :
        /\ IsStrapEvent(gpio[i])
        /\ \A k \in (i + 1)..(j - 1) : gpio[k].pin # "int"

\* C7: with both pins, the interrupt line is made an open-drain output at level
\* int_high only while reset is low; reset is released only while the line is
\* so held; the line returns to input only after the release; and once the bus
\* is used or the handle returned, reset is high and the line is an input.
C7_StrapOrder ==
    (cfg.rst_pin /\ cfg.int_pin) =>
        /\ intp.dir = "output" =>
              intp.value = cfg.int_high /\ intp.mode = "open_drain"
        /\ \A j \in DOMAIN gpio :
              /\ IsStrapEvent(gpio[j]) =>
                    /\ gpio[j].value = cfg.int_high
                    /\ gpio[j].mode = "open_drain"
                    /\ RstLowBefore(j)
              /\ (IsRstHighEvent(gpio[j]) /\ RstLowBefore(j)) => StrappedBefore(j)
              /\ IsListenEvent(gpio[j]) =>
                    \E k \in 1..(j - 1) :
                        /\ IsRstHighEvent(gpio[k])
                        /\ StrappedBefore(k)
                        /\ RstLowBefore(k)
        /\ (bus_used \/ pc = "idle") =>
              /\ RstHigh
              /\ intp.dir = "input"
              /\ gpio # <<>>
              /\ IsListenEvent(gpio[Len(gpio)])

\* C7 witness: a handle constructed with both pins and the strap level high.
C7_Witness ==
    /\ cfg.rst_pin
    /\ cfg.int_pin
    /\ cfg.int_high
    /\ pc = "idle"
    /\ Len(gpio) = 6

\* C8: with a reset pin, by the first I2C transaction reset has been held low
\* for at least 10 ms (100 ticks) and at least 5 ms (50 ticks) have passed
\* since it was driven high.
C8_PulseAndSettle ==
    (cfg.rst_pin /\ bus_used) => (held_low >= 100 /\ settle >= 50)

\* C9: each transaction frames its register address in two bytes, high byte
\* first; a _read is one write_then_readinto of these two bytes and a buffer
\* of the requested length; a _write is one write of the two bytes followed by
\* the payload, value by value, each reduced modulo 256.
C9_Framing ==
    \A i \in DOMAIN bus :
        LET t == bus[i]
        IN  /\ Len(t.out) >= 2
            /\ t.out[1] \in 0..255
            /\ t.out[2] \in 0..255
            /\ t.out[1] * 256 + t.out[2] = t.register
            /\ t.fn = "_read" =>
                  /\ t.op = "write_then_readinto"
                  /\ Len(t.out) = 2
                  /\ t.n = t.length
            /\ t.fn = "_write" =>
                  /\ t.op = "write"
                  /\ t.n = 0
                  /\ Len(t.out) = 2 + Len(t.values)
                  /\ \A k \in DOMAIN t.values :
                        /\ t.out[2 + k] \in 0..255
                        /\ (t.values[k] - t.out[2 + k]) % 256 = 0

\* C9 witness: a write whose payload holds values outside 0..255 next to a read
\* of several bytes.
C9_Witness ==
    /\ Len(bus) = 2
    /\ bus[1].fn = "_read"
    /\ bus[1].length = POINT_READ_LEN
    /\ bus[1].register = 258
    /\ bus[2].fn = "_write"
    /\ bus[2].values = <<-1, 511>>
    /\ bus[2].out = <<255, 0, 255, 255>>

\* two bytes, low byte first, as a 16-bit two's-complement number
Signed16(lo, hi) ==
    LET u == hi * 256 + lo
    IN  IF u >= 32768 THEN u - 65536 ELSE u

\* C10: every returned point carries id, x, y and size, the last three the
\* signed little-endian 16-bit values of the record's byte pairs.
C10_SignedFields ==
    touches_ret.called =>
        \A i \in DOMAIN touches_ret.points :
            LET p == touches_ret.points[i]
                d == last_touch
            IN  /\ p.id = d[1]
                /\ p.x = Signed16(d[2], d[3])
                /\ p.y = Signed16(d[4], d[5])
                /\ "size" \in DOMAIN p
                /\ p.size = Signed16(d[6], d[7])


\* C11: when a call of touched ends with a bus error, the driver is back with
\* its caller (it issues nothing more for that call) and the stored record is
\* the one the call began with.
C11_ErrorKeepsRecord ==
    touched_ret = "OSError" =>
        /\ pc = "idle"
        /\ last_touch = entry_touch

\* C12: with both pins, the handle's address is the one the level driven on
\* the interrupt line during reset selects, as the comment of line 198 gives
\* it: high 0x14, low 0x5D.
C12_AddressFollowsStrap ==
    (cfg.rst_pin /\ cfg.int_pin /\ i2c_addr # 0) =>
        \A j \in DOMAIN gpio :
            IsStrapEvent(gpio[j]) =>
                i2c_addr = IF gpio[j].value
                           THEN GT_SECONDARY_I2C_ADDR
                           ELSE GT_DEFAULT_I2C_ADDR


\* C13: a call of touched that returns True read a record different from the
\* one stored when it began and has stored the record it read; one that
\* returns False read the stored record and left it; so a call that returns
\* True right after a call that returned True read a different record than
\* that call did.
C13_TouchedReportsChange ==
    /\ touched_ret = "True" =>
          /\ first_read # entry_touch
          /\ last_touch = first_read
    /\ touched_ret = "False" =>
          /\ first_read = entry_touch
          /\ last_touch = entry_touch
    /\ (touched_ret = "True" /\ prev_true_read # <<>>) =>
          first_read # prev_true_read

\* C13 witness: two calls of touched in a row that both returned True.
C13_Witness ==
    /\ pc = "idle"
    /\ touched_ret = "True"
    /\ prev_true_read \in Records
    /\ first_read \in Records


C14_PollTerminates ==
    /\ [](status_reads <= POLL_TIMEOUT)
    /\ [](pc \in {"poll_loop_clear", "poll_loop_status"} =>
            /\ ~Ready(test)
            /\ test # 0
            /\ timeout > 0)
    /\ [](pc = "poll_return" =>
            /\ IsPointRead(bus[Len(bus)])
            /\ IsStatusClear(bus[Len(bus) - 1])
            /\ curr_touch \in Records)
    /\ []((pc \in ReadPcs /\ cfg.int_pin) => ENABLED IntWait)
    /\ (pc = "poll_clear") ~> (pc = "poll_return" \/ touched_ret = "OSError")

\* C14 witness: the poll leaves the wait loop on its 250th status read with the
\* device still not ready, on a handle with an interrupt pin.
C14_Witness ==
    /\ cfg.int_pin
    /\ pc = "poll_final_clear"
    /\ status_reads = POLL_TIMEOUT
    /\ ~Ready(test)
    /\ test # 0

\* C16: a reset on a handle without a reset pin raises before any GPIO call,
\* and a configuration with int_high true and no reset pin never gets a
\* constructed handle.
C16_MissingResetRejected ==
    /\ pc = "RuntimeError" => gpio = <<>>
    /\ (cfg.int_high /\ ~cfg.rst_pin) => ~Constructed

=============================================================================
